---------------------------- MODULE Spec2Model ----------------------------
(***************************************************************************)
(* Conversation-state and guardrail core of agentic-devops-starter:        *)
(* BaseAgent / ConversationalAgent (app/src/agents), the correlation       *)
(* context and logger set-up (app/src/logging_utils.py).                   *)
(*                                                                         *)
(* Python strings that the code inspects character by character (user      *)
(* messages, generated responses) are sequences of one-character strings.  *)
(* Identifiers (conversation ids, correlation ids) are only compared and   *)
(* interpolated, and are TLA+ strings.                                     *)
(***************************************************************************)
EXTENDS Integers, Sequences, FiniteSets, TLC

(***************************************************************************)
(* Bounds of the model                                                     *)
(***************************************************************************)
\* number of history entries, over all agents, a behaviour is driven to
MaxHistory == 4
\* number of uuid4() values drawn in one behaviour
MaxUuid == 2

(***************************************************************************)
(* str operations used by the agent                                        *)
(***************************************************************************)
\* characters str.strip() removes
Whitespace == {" ", "\t", "\n"}

UpperCase ==
  <<"A","B","C","D","E","F","G","H","I","J","K","L","M",
    "N","O","P","Q","R","S","T","U","V","W","X","Y","Z">>

LowerCase ==
  <<"a","b","c","d","e","f","g","h","i","j","k","l","m",
    "n","o","p","q","r","s","t","u","v","w","x","y","z">>

Digits == {"0","1","2","3","4","5","6","7","8","9"}

\* the character class \w of the re module
WordChars ==
  {UpperCase[i] : i \in 1..26} \cup {LowerCase[i] : i \in 1..26}
    \cup Digits \cup {"_"}

\* the lower-case letter of each upper-case letter
ToLower == [c \in {UpperCase[i] : i \in 1..26} |->
              LowerCase[CHOOSE i \in 1..26 : UpperCase[i] = c]]

lower_char(c) == IF c \in DOMAIN ToLower THEN ToLower[c] ELSE c

\* str.lower()
lower(s) == [i \in 1..Len(s) |-> lower_char(s[i])]

\* str.strip(): the characters between the first and the last one that is
\* not whitespace
strip(s) ==
  LET n == Len(s)
      lead == CHOOSE i \in 0..n :
                /\ \A j \in 1..i : s[j] \in Whitespace
                /\ (i < n => s[i + 1] \notin Whitespace)
      trail == CHOOSE i \in 0..n :
                 /\ \A j \in 1..i : s[n + 1 - j] \in Whitespace
                 /\ (i < n => s[n - i] \notin Whitespace)
  IN  IF lead = n THEN <<>> ELSE SubSeq(s, lead + 1, n - trail)

\* s[i .. i+Len(w)-1] == w
matches_at(s, i, w) == \A k \in 1..Len(w) : s[i + k - 1] = w[k]

\* needle in hay
contains(hay, needle) ==
  \E i \in 1..(Len(hay) - Len(needle) + 1) : matches_at(hay, i, needle)

\* re.search(r"\b(w1|w2|...)\b", s) is not None, for words of \w characters
re_search_words(words, s) ==
  \E w \in words :
    \E i \in 1..(Len(s) - Len(w) + 1) :
       /\ matches_at(s, i, w)
       /\ (i = 1 \/ s[i - 1] \notin WordChars)
       /\ (i + Len(w) - 1 = Len(s) \/ s[i + Len(w)] \notin WordChars)

(***************************************************************************)
(* String literals of conversational_agent.py                              *)
(***************************************************************************)
\* _generate_response, conversational_agent.py:142-144 (56 characters)
HelloResponse ==
  <<"H","e","l","l","o","!"," ","I","'","m"," ","h","e","r","e"," ","t","o",
    " ","h","e","l","p"," ","y","o","u","."," ","H","o","w"," ","c","a","n",
    " ","I"," ","a","s","s","i","s","t"," ","y","o","u"," ","t","o","d","a",
    "y","?">>

\* _generate_response, conversational_agent.py:146-149 (90 characters)
HowAreYouResponse ==
  <<"I","'","m"," ","f","u","n","c","t","i","o","n","i","n","g"," ","w","e",
    "l","l",","," ","t","h","a","n","k"," ","y","o","u"," ","f","o","r"," ",
    "a","s","k","i","n","g","!"," ","I","'","m"," ","r","e","a","d","y"," ",
    "t","o"," ","h","e","l","p"," ","w","i","t","h"," ","a","n","y"," ","q",
    "u","e","s","t","i","o","n","s"," ","y","o","u"," ","h","a","v","e",".">>

\* _generate_response, conversational_agent.py:151-155 (171 characters)
HelpResponse ==
  <<"I","'","m"," ","a","n"," ","A","I"," ","a","s","s","i","s","t","a","n",
    "t"," ","b","u","i","l","t"," ","w","i","t","h"," ","t","h","e"," ","m",
    "i","c","r","o","s","o","f","t","-","a","g","e","n","t","-","f","r","a",
    "m","e","w","o","r","k","."," ","I"," ","c","a","n"," ","h","e","l","p",
    " ","a","n","s","w","e","r"," ","q","u","e","s","t","i","o","n","s",",",
    " ","p","r","o","v","i","d","e"," ","i","n","f","o","r","m","a","t","i",
    "o","n",","," ","a","n","d"," ","a","s","s","i","s","t"," ","w","i","t",
    "h"," ","v","a","r","i","o","u","s"," ","t","a","s","k","s","."," ","W",
    "h","a","t"," ","w","o","u","l","d"," ","y","o","u"," ","l","i","k","e",
    " ","t","o"," ","k","n","o","w","?">>

\* _generate_response, conversational_agent.py:158 (24 characters)
EchoPrefix ==
  <<"I"," ","u","n","d","e","r","s","t","a","n","d"," ","y","o","u"," ","s",
    "a","i","d",":"," ","'">>

\* _generate_response, conversational_agent.py:158-161 (156 characters)
EchoSuffix ==
  <<"'","."," ","T","h","i","s"," ","i","s"," ","a"," ","d","e","m","o","n",
    "s","t","r","a","t","i","o","n"," ","o","f"," ","t","h","e"," ","a","g",
    "e","n","t"," ","f","r","a","m","e","w","o","r","k"," ","i","n","t","e",
    "g","r","a","t","i","o","n","."," ","I","n"," ","p","r","o","d","u","c",
    "t","i","o","n",","," ","I"," ","w","o","u","l","d"," ","p","r","o","v",
    "i","d","e"," ","a"," ","m","o","r","e"," ","i","n","t","e","l","l","i",
    "g","e","n","t"," ","r","e","s","p","o","n","s","e"," ","u","s","i","n",
    "g"," ","t","h","e"," ","c","o","n","f","i","g","u","r","e","d"," ","L",
    "L","M"," ","p","r","o","v","i","d","e","r",".">>

\* process_message, conversational_agent.py:103 (58 characters)
Apology ==
  <<"I"," ","a","p","o","l","o","g","i","z","e",","," ","b","u","t"," ","I",
    " ","c","a","n","n","o","t"," ","p","r","o","v","i","d","e"," ","a"," ",
    "r","e","s","p","o","n","s","e"," ","a","t"," ","t","h","i","s"," ","t",
    "i","m","e",".">>


(***************************************************************************)
(* Guardrail and mock generation (pure functions)                          *)
(***************************************************************************)
\* ConversationalAgent._generate_response
generate_response(message) ==
  LET message_lower == lower(message)
  IN  IF \/ contains(message_lower, <<"h","e","l","l","o">>)
         \/ contains(message_lower, <<"h","i">>)
        THEN HelloResponse
      ELSE IF contains(message_lower,
                       <<"h","o","w"," ","a","r","e"," ","y","o","u">>)
        THEN HowAreYouResponse
      ELSE IF contains(message_lower, <<"h","e","l","p">>)
        THEN HelpResponse
      ELSE EchoPrefix \o message \o EchoSuffix

\* the denylist of validate_response, in list order
harmful_patterns ==
  << [pattern |-> "\\b(hack|exploit|malware|virus)\\b",
      words   |-> { <<"h","a","c","k">>,
                    <<"e","x","p","l","o","i","t">>,
                    <<"m","a","l","w","a","r","e">>,
                    <<"v","i","r","u","s">> }],
     [pattern |-> "\\b(steal|fraud|scam)\\b",
      words   |-> { <<"s","t","e","a","l">>,
                    <<"f","r","a","u","d">>,
                    <<"s","c","a","m">> }] >>

\* the Python value None, where a str is expected
None == "<None>"

\* shortest trimmed response the guardrail accepts
MinResponseLength == 3
\* characters allowed per token of max_tokens
CharsPerToken == 4

\* validate_response rejecting a response of exactly max_tokens * 4
\* characters, and with the denylist looked up before the length
validate_response_strict(response, max_tokens) ==
  LET max_length == max_tokens * CharsPerToken
      hits == {i \in 1..Len(harmful_patterns) :
                 re_search_words(harmful_patterns[i].words, lower(response))}
      first == CHOOSE i \in hits : \A j \in hits : i <= j
  IN  IF response = <<>> \/ Len(strip(response)) < MinResponseLength
        THEN [is_valid |-> FALSE,
              error_message |-> "Response is empty or too short"]
      ELSE IF hits # {}
        THEN [is_valid |-> FALSE,
              error_message |->
                "Response contains potentially harmful content: "
                  \o harmful_patterns[first].pattern]
      ELSE IF Len(response) >= max_length
        THEN [is_valid |-> FALSE,
              error_message |-> "Response exceeds maximum length of "
                                  \o ToString(max_length) \o " characters"]
      ELSE [is_valid |-> TRUE, error_message |-> None]

\* ConversationalAgent.validate_response: the pair (is_valid, error_message)
validate_response(response, max_tokens) ==
  LET max_length == max_tokens * CharsPerToken
      hits == {i \in 1..Len(harmful_patterns) :
                 re_search_words(harmful_patterns[i].words, lower(response))}
      first == CHOOSE i \in hits : \A j \in hits : i <= j
  IN  IF response = <<>> \/ Len(strip(response)) < MinResponseLength
        THEN [is_valid |-> FALSE,
              error_message |-> "Response is empty or too short"]
      ELSE IF Len(response) > max_length
        THEN [is_valid |-> FALSE,
              error_message |-> "Response exceeds maximum length of "
                                  \o ToString(max_length) \o " characters"]
      ELSE IF hits # {}
        THEN [is_valid |-> FALSE,
              error_message |->
                "Response contains potentially harmful content: "
                  \o harmful_patterns[first].pattern]
      ELSE [is_valid |-> TRUE, error_message |-> None]

(***************************************************************************)
(* Inputs                                                                  *)
(***************************************************************************)
AgentIds == {"agent1", "agent2"}
\* execution units, each with its own contextvars context
Units == {"unit1", "unit2"}
\* values of LLMConfig.max_tokens the agents are built with
MaxTokensValues == {14, 1000}
\* identifiers a caller passes to set_correlation_id / initialize_state
ExplicitIds == {"demo-session-001"}

EmptyMessage == <<>>
BlankMessage == <<" ", "\t">>
\* answered with the greeting; kept untrimmed in the history
HiMessage == <<" ","H","i"," ">>
\* echoed back, so that the candidate contains a denylisted word
HackMessage == <<"h","a","c","k">>

\* echoed back untrimmed; the candidate passes when max_tokens is large
PaddedMessage == <<" ","o","k"," ">>

Messages ==
  {EmptyMessage, BlankMessage, HiMessage, HackMessage, PaddedMessage}

\* levels of the logging module
INFO == 20
WARNING == 30

(***************************************************************************)
(* State                                                                   *)
(***************************************************************************)
VARIABLES
  kind,                \* class of the object bound to each agent name
  llm_config,          \* self.llm_config of each agent
  state,               \* self.state of each agent: <<>> or <<AgentState>>
  correlation_id_var,  \* value of the ContextVar in each unit's context
  uuid_count,          \* number of uuid4() values drawn so far
  logger,              \* the "agentic_devops" logger: level and handlers
  emitted,             \* records the handlers wrote during the last step
  last,                \* the last completed call: operation, arguments, outcome
  calls                \* the process_message call each unit is in the middle of

vars ==
  <<kind, llm_config, state, correlation_id_var, uuid_count, logger,
    emitted, last, calls>>

\* self.state is None
NoState == <<>>

\* AgentState(conversation_id=...): the field defaults of the model
AgentState(conversation_id) ==
  [conversation_id |-> conversation_id,
   message_count   |-> 0,
   context         |-> <<>>,
   history         |-> <<>>]

\* the part of the program state the operations read and write
World ==
  [state  |-> state,
   cv     |-> correlation_id_var,
   uuid   |-> uuid_count,
   logger |-> logger,
   out    |-> <<>>]

(***************************************************************************)
(* logging_utils.py                                                        *)
(***************************************************************************)
\* str(uuid.uuid4()): the n-th value drawn; values drawn are pairwise
\* distinct and differ from every caller-chosen identifier
uuid4(n) == "uuid-" \o ToString(n)

\* get_correlation_id that returns a generated identifier without storing it
get_correlation_id_unstored(w, u) ==
  IF w.cv[u] = None
    THEN [w   |-> [w EXCEPT !.uuid = @ + 1],
          ret |-> uuid4(w.uuid + 1)]
    ELSE [w |-> w, ret |-> w.cv[u]]

\* get_correlation_id() in unit u
get_correlation_id(w, u) ==
  IF w.cv[u] = None
    THEN [w   |-> [w EXCEPT !.uuid = @ + 1, !.cv[u] = uuid4(w.uuid + 1)],
          ret |-> uuid4(w.uuid + 1)]
    ELSE [w |-> w, ret |-> w.cv[u]]

\* set_correlation_id writing one variable shared by all units
set_correlation_id_global(w, u, correlation_id) ==
  [w EXCEPT !.cv = [x \in Units |-> correlation_id]]

\* set_correlation_id(correlation_id) in unit u
set_correlation_id(w, u, correlation_id) ==
  [w EXCEPT !.cv[u] = correlation_id]

\* a filter that tags every record with the placeholder
CorrelationIdFilter_untagged(w, u) == "no-correlation-id"

\* CorrelationIdFilter.filter: the tag put on a record
CorrelationIdFilter(w, u) ==
  IF w.cv[u] = None THEN "no-correlation-id" ELSE w.cv[u]

\* structured_data of a record logged without extra
NoData == [operation |-> None]

\* Logger.getEffectiveLevel for a logger below the root (WARNING)
EffectiveLevel(lg) == IF lg.level = 0 THEN WARNING ELSE lg.level

\* Logger.log(levelno, msg, extra={"structured_data": data}) in unit u:
\* every handler whose level admits the record writes it, tagged by its filter
logger_log(w, u, levelno, msg, data) ==
  LET hs == w.logger.handlers
      written == SelectSeq(hs, LAMBDA h : levelno >= h.level)
      recs == [i \in 1..Len(written) |->
                 [levelno         |-> levelno,
                  msg             |-> msg,
                  correlation_id  |-> CorrelationIdFilter(w, u),
                  structured_data |-> data]]
  IN  IF levelno >= EffectiveLevel(w.logger)
        THEN [w EXCEPT !.out = @ \o recs]
        ELSE w

\* setup_logging adding its handler to the handlers already there
setup_logging_appending(w, level) ==
  [w EXCEPT !.logger =
     [level    |-> level,
      handlers |-> Append(w.logger.handlers,
                          [level |-> level,
                           filters |-> <<"CorrelationIdFilter">>])]]

\* setup_logging(level)
setup_logging(w, level) ==
  [w EXCEPT !.logger =
     [level    |-> level,
      handlers |-> << [level |-> level,
                       filters |-> <<"CorrelationIdFilter">>] >>]]

\* log_llm_interaction(logger, operation, details) in unit u; details is a
\* record, extended here with the two keys of log_data
log_llm_interaction(w, u, operation, details) ==
  LET g == get_correlation_id(w, u)
      log_data == [k \in {"operation", "correlation_id"} \cup DOMAIN details |->
                     IF k \in DOMAIN details THEN details[k]
                     ELSE IF k = "operation" THEN operation
                     ELSE g.ret]
  IN  logger_log(g.w, u, INFO, "LLM Interaction: " \o operation, log_data)

(***************************************************************************)
(* base_agent.py                                                           *)
(***************************************************************************)
\* BaseAgent.__init__ in unit u: the logger is (re)configured, self.state is
\* None, and the construction is logged
BaseAgent_init(w, a, u) ==
  LET w1 == setup_logging(w, INFO)
      w2 == [w1 EXCEPT !.state[a] = NoState]
  IN  logger_log(w2, u, INFO, "Initialized agent '" \o a \o "'", NoData)

\* initialize_state assigning one state object to every agent
initialize_state_shared(w, a, u, conversation_id) ==
  LET g == IF conversation_id = None
             THEN get_correlation_id(w, u)
             ELSE [w |-> w, ret |-> conversation_id]
      w1 == [g.w EXCEPT !.state = [x \in AgentIds |-> <<AgentState(g.ret)>>]]
  IN  logger_log(w1, u, INFO,
                 "Initialized state for conversation: " \o g.ret, NoData)

\* BaseAgent.initialize_state(conversation_id) in unit u
initialize_state(w, a, u, conversation_id) ==
  LET g == IF conversation_id = None
             THEN get_correlation_id(w, u)
             ELSE [w |-> w, ret |-> conversation_id]
      w1 == [g.w EXCEPT !.state[a] = <<AgentState(g.ret)>>]
  IN  logger_log(w1, u, INFO,
                 "Initialized state for conversation: " \o g.ret, NoData)

\* add_to_history inserting at the front of the history
prepend_and_count(st, role, content) ==
  [st EXCEPT !.history = <<[role |-> role, content |-> content]>> \o @,
             !.message_count = @ + 1]

\* add_to_history with the counter update left out
append_without_count(st, role, content) ==
  [st EXCEPT !.history = Append(@, [role |-> role, content |-> content])]

\* the two statements of add_to_history that mutate an existing state
append_and_count(st, role, content) ==
  [st EXCEPT !.history = Append(@, [role |-> role, content |-> content]),
             !.message_count = @ + 1]

\* add_to_history re-keying the state to the current correlation identifier
add_to_history_rekeyed(w, a, u, role, content) ==
  LET w1 == IF w.state[a] = NoState
              THEN initialize_state(w, a, u, None)
              ELSE w
      g == get_correlation_id(w1, u)
  IN  [g.w EXCEPT !.state[a] =
         <<[append_and_count(w1.state[a][1], role, content)
              EXCEPT !.conversation_id = g.ret]>>]

\* add_to_history that creates a missing state instead of appending
add_to_history_unprepared(w, a, u, role, content) ==
  IF w.state[a] = NoState
    THEN initialize_state(w, a, u, None)
    ELSE [w EXCEPT !.state[a] =
            <<append_and_count(w.state[a][1], role, content)>>]

\* BaseAgent.add_to_history(role, content) in unit u
add_to_history(w, a, u, role, content) ==
  LET w1 == IF w.state[a] = NoState
              THEN initialize_state(w, a, u, None)
              ELSE w
  IN  IF w1.state[a] # NoState
        THEN [w1 EXCEPT !.state[a] =
                <<append_and_count(w1.state[a][1], role, content)>>]
        ELSE w1

\* add_to_history up to and including history.append: the state is created
\* if there is none and the entry is appended; the counter is not yet updated
append_entry(w, a, u, role, content) ==
  LET w1 == IF w.state[a] = NoState
              THEN initialize_state(w, a, u, None)
              ELSE w
  IN  [w1 EXCEPT !.state[a][1].history =
         Append(@, [role |-> role, content |-> content])]

\* the store of "self.state.message_count += 1", for a value loaded before
store_count(w, a, loaded) ==
  [w EXCEPT !.state[a][1].message_count = loaded + 1]

\* BaseAgent.log_interaction(operation, details) in unit u
log_interaction(w, u, operation, details) ==
  log_llm_interaction(w, u, operation, details)

(***************************************************************************)
(* conversational_agent.py                                                 *)
(***************************************************************************)
\* a constructor that leaves the state to the first append
ConversationalAgent_init_stateless(w, a, u) == BaseAgent_init(w, a, u)

\* a constructor that keys the state to an identifier of its own
ConversationalAgent_init_own_id(w, a, u) ==
  LET w1 == BaseAgent_init(w, a, u)
  IN  initialize_state([w1 EXCEPT !.uuid = @ + 1], a, u, uuid4(w1.uuid + 1))

\* ConversationalAgent.__init__ in unit u
ConversationalAgent_init(w, a, u) ==
  initialize_state(BaseAgent_init(w, a, u), a, u, None)

\* the conversation_id a log entry of process_message records
logged_conversation_id(w, a) ==
  IF w.state[a] # NoState THEN w.state[a][1].conversation_id ELSE "unknown"

\* the message_count as it was before the user entry was appended
logged_message_count_stale(w, a) ==
  IF w.state[a] # NoState THEN w.state[a][1].message_count - 1 ELSE 0

\* the message_count a log entry of process_message records
logged_message_count(w, a) ==
  IF w.state[a] # NoState THEN w.state[a][1].message_count ELSE 0

\* the input check without the strip() test
is_blank_not_stripped(message) == message = <<>>

\* message is empty or whitespace-only
is_blank(message) == message = <<>> \/ strip(message) = <<>>

EmptyInputError == "ValueError: Message cannot be empty"

\* process_message falling back on the head of the rejected candidate
final_response_truncated(v, candidate) ==
  IF v.is_valid THEN candidate ELSE SubSeq(candidate, 1, MinResponseLength)

\* process_message without the substitution of the apology
final_response_unsubstituted(v, candidate) == candidate

\* the response process_message delivers for a candidate with verdict v
final_response(v, candidate) == IF v.is_valid THEN candidate ELSE Apology

\* process_message storing the trimmed text
receive_message_trimmed(w, a, u, message) ==
  LET w1 == add_to_history(w, a, u, "user", strip(message))
  IN  log_interaction(w1, u, "process_message",
        [message_length  |-> Len(message),
         conversation_id |-> logged_conversation_id(w1, a),
         message_count   |-> logged_message_count(w1, a)])

\* process_message up to the first log entry: the user entry is appended and
\* the 'process_message' entry is logged
receive_message(w, a, u, message) ==
  LET w1 == add_to_history(w, a, u, "user", message)
  IN  log_interaction(w1, u, "process_message",
        [message_length  |-> Len(message),
         conversation_id |-> logged_conversation_id(w1, a),
         message_count   |-> logged_message_count(w1, a)])

\* the warning process_message logs for a rejected candidate
warn_if_rejected(w, u, v) ==
  IF v.is_valid
    THEN w
    ELSE logger_log(w, u, WARNING,
                    "Response validation failed: " \o v.error_message, NoData)

\* process_message returning early, before the append, for a rejected candidate
deliver_response_unless_rejected(w, a, u, response, is_valid) ==
  IF is_valid
    THEN log_interaction(add_to_history(w, a, u, "assistant", response), u,
           "response_generated",
           [response_length   |-> Len(response),
            conversation_id   |-> logged_conversation_id(w, a),
            validation_passed |-> is_valid])
    ELSE w

\* process_message from the assistant append on: the response is appended
\* and the 'response_generated' entry is logged
deliver_response(w, a, u, response, is_valid) ==
  LET w1 == add_to_history(w, a, u, "assistant", response)
  IN  log_interaction(w1, u, "response_generated",
        [response_length   |-> Len(response),
         conversation_id   |-> logged_conversation_id(w1, a),
         validation_passed |-> is_valid])

\* process_message appending the user entry before it tests the text
process_message_append_first(w, a, u, message, max_tokens) ==
  IF is_blank(message)
    THEN [w |-> add_to_history(w, a, u, "user", message),
          ret |-> <<>>, raised |-> EmptyInputError]
    ELSE
      LET w1 == receive_message(w, a, u, message)
          candidate == generate_response(message)
          v == validate_response(candidate, max_tokens)
          w2 == warn_if_rejected(w1, u, v)
          response == final_response(v, candidate)
          w3 == deliver_response(w2, a, u, response, v.is_valid)
      IN  [w |-> w3, ret |-> response, raised |-> None]

\* process_message raising when the candidate is rejected
process_message_raising(w, a, u, message, max_tokens) ==
  IF is_blank(message)
    THEN [w |-> w, ret |-> <<>>, raised |-> EmptyInputError]
    ELSE
      LET w1 == receive_message(w, a, u, message)
          candidate == generate_response(message)
          v == validate_response(candidate, max_tokens)
          w2 == warn_if_rejected(w1, u, v)
      IN  IF v.is_valid
            THEN [w |-> deliver_response(w2, a, u, candidate, TRUE),
                  ret |-> candidate, raised |-> None]
            ELSE [w |-> w2, ret |-> <<>>,
                  raised |-> "ValueError: " \o v.error_message]

\* ConversationalAgent.process_message(message) in unit u, on an agent
\* configured with max_tokens: the world after the call, the returned string
\* and the exception raised
process_message(w, a, u, message, max_tokens) ==
  IF is_blank(message)
    THEN [w |-> w, ret |-> <<>>, raised |-> EmptyInputError]
    ELSE
      LET w1 == receive_message(w, a, u, message)
          candidate == generate_response(message)
          v == validate_response(candidate, max_tokens)
          w2 == warn_if_rejected(w1, u, v)
          response == final_response(v, candidate)
          w3 == deliver_response(w2, a, u, response, v.is_valid)
      IN  [w |-> w3, ret |-> response, raised |-> None]

\* a summary whose history_length counts the user entries only
get_conversation_summary_user_turns(w, a) ==
  IF w.state[a] = NoState
    THEN [error |-> "No active conversation"]
    ELSE [conversation_id |-> w.state[a][1].conversation_id,
          message_count   |-> w.state[a][1].message_count,
          history_length  |->
            Cardinality({i \in 1..Len(w.state[a][1].history) :
                           w.state[a][1].history[i].role = "user"}),
          context         |-> w.state[a][1].context]

\* ConversationalAgent.get_conversation_summary
get_conversation_summary(w, a) ==
  IF w.state[a] = NoState
    THEN [error |-> "No active conversation"]
    ELSE [conversation_id |-> w.state[a][1].conversation_id,
          message_count   |-> w.state[a][1].message_count,
          history_length  |-> Len(w.state[a][1].history),
          context         |-> w.state[a][1].context]

\* reset_conversation keying the state to the new identifier without
\* setting it as the correlation identifier
reset_conversation_unset(w, a, u) ==
  LET new_correlation_id == uuid4(w.uuid + 1)
      w1 == [w EXCEPT !.uuid = @ + 1]
      w3 == initialize_state(w1, a, u, new_correlation_id)
  IN  logger_log(w3, u, INFO, "Conversation reset", NoData)

\* reset_conversation without a new identifier
reset_conversation_same_id(w, a, u) ==
  logger_log(initialize_state(w, a, u, None), u, INFO,
             "Conversation reset", NoData)

\* ConversationalAgent.reset_conversation in unit u
reset_conversation(w, a, u) ==
  LET new_correlation_id == uuid4(w.uuid + 1)
      w1 == [w EXCEPT !.uuid = @ + 1]
      w2 == set_correlation_id(w1, u, new_correlation_id)
      w3 == initialize_state(w2, a, u, None)
  IN  logger_log(w3, u, INFO, "Conversation reset", NoData)

(***************************************************************************)
(* Operations, each called from an execution unit                          *)
(***************************************************************************)
NoConfig == [max_tokens |-> 0]

\* the world before any agent exists: no state, no correlation identifier,
\* the logger as logging.getLogger leaves it (level NOTSET, no handler)
InitWorld ==
  [state  |-> [a \in AgentIds |-> NoState],
   cv     |-> [u \in Units |-> None],
   uuid   |-> 0,
   logger |-> [level |-> 0, handlers |-> <<>>],
   out    |-> <<>>]

\* a unit that is not inside process_message
Idle ==
  [pc |-> "idle", agent |-> "-", message |-> <<>>, loaded |-> 0,
   is_valid |-> TRUE, response |-> <<>>]

Init ==
  /\ calls = [u \in Units |-> Idle]
  /\ kind = [a \in AgentIds |-> "absent"]
  /\ llm_config = [a \in AgentIds |-> NoConfig]
  /\ state = InitWorld.state
  /\ correlation_id_var = InitWorld.cv
  /\ uuid_count = InitWorld.uuid
  /\ logger = InitWorld.logger
  /\ emitted = InitWorld.out
  /\ last = [op |-> "start", agent |-> "-", unit |-> "-",
             arg |-> <<>>, ret |-> <<>>, raised |-> None]

RECURSIVE SumOver(_, _)
SumOver(f, S) ==
  IF S = {} THEN 0
  ELSE LET x == CHOOSE y \in S : TRUE IN f[x] + SumOver(f, S \ {x})

\* history entries held by all agents together
TotalHistory(st) ==
  SumOver([a \in AgentIds |->
             IF st[a] = NoState THEN 0 ELSE Len(st[a][1].history)], AgentIds)

\* the call stays within the bounds of the model
WithinBounds(w) ==
  /\ w.uuid <= MaxUuid
  /\ TotalHistory(w.state) <= MaxHistory

\* the program state after a call that leaves the world w
Commit(w) ==
  /\ WithinBounds(w)
  /\ state' = w.state
  /\ correlation_id_var' = w.cv
  /\ uuid_count' = w.uuid
  /\ logger' = w.logger
  /\ emitted' = w.out

\* the call that just completed
Returned(op, a, u, arg, ret, raised) ==
  last' = [op |-> op, agent |-> a, unit |-> u,
           arg |-> arg, ret |-> ret, raised |-> raised]

\* a call that ran from start to end with no other call in progress
Called(op, a, u, arg, ret, raised) ==
  /\ Returned(op, a, u, arg, ret, raised)
  /\ UNCHANGED calls

\* agent = ConversationalAgent(llm_config=LLMConfig(max_tokens=mt))
ConstructConversationalAgent(a, u, mt) ==
  /\ kind[a] = "absent"
  /\ kind' = [kind EXCEPT ![a] = "conv"]
  /\ llm_config' = [llm_config EXCEPT ![a] = [max_tokens |-> mt]]
  /\ Commit(ConversationalAgent_init(World, a, u))
  /\ Called("ConversationalAgent", a, u, mt, <<>>, None)

\* agent = ConcreteTestAgent(llm_config=LLMConfig(max_tokens=mt)): a subclass
\* that runs BaseAgent.__init__ only
ConstructBaseAgent(a, u, mt) ==
  /\ kind[a] = "absent"
  /\ kind' = [kind EXCEPT ![a] = "base"]
  /\ llm_config' = [llm_config EXCEPT ![a] = [max_tokens |-> mt]]
  /\ Commit(BaseAgent_init(World, a, u))
  /\ Called("BaseAgent", a, u, mt, <<>>, None)

InitializeState(a, u, cid) ==
  /\ kind[a] # "absent"
  /\ Commit(initialize_state(World, a, u, cid))
  /\ Called("initialize_state", a, u, cid, <<>>, None)
  /\ UNCHANGED <<kind, llm_config>>

AddToHistory(a, u, role, content) ==
  /\ kind[a] # "absent"
  /\ Commit(add_to_history(World, a, u, role, content))
  /\ Called("add_to_history", a, u, <<role, content>>, <<>>, None)
  /\ UNCHANGED <<kind, llm_config>>

ProcessMessage(a, u, message) ==
  /\ kind[a] = "conv"
  /\ LET r == process_message(World, a, u, message, llm_config[a].max_tokens)
     IN  /\ Commit(r.w)
         /\ Called("process_message", a, u, message, r.ret, r.raised)
  /\ UNCHANGED <<kind, llm_config>>

\* validate_response logging the rejection itself
ValidateResponseLogged(a, u, response) ==
  /\ kind[a] = "conv"
  /\ LET v == validate_response(response, llm_config[a].max_tokens)
     IN  /\ Commit(warn_if_rejected(World, u, v))
         /\ Called("validate_response", a, u, response, v, None)
  /\ UNCHANGED <<kind, llm_config>>

ValidateResponse(a, u, response) ==
  /\ kind[a] = "conv"
  /\ Commit(World)
  /\ Called("validate_response", a, u, response,
            validate_response(response, llm_config[a].max_tokens), None)
  /\ UNCHANGED <<kind, llm_config>>

GetConversationSummary(a, u) ==
  /\ kind[a] = "conv"
  /\ Commit(World)
  /\ Called("get_conversation_summary", a, u, <<>>,
            get_conversation_summary(World, a), None)
  /\ UNCHANGED <<kind, llm_config>>

ResetConversation(a, u) ==
  /\ kind[a] = "conv"
  /\ Commit(reset_conversation(World, a, u))
  /\ Called("reset_conversation", a, u, <<>>, <<>>, None)
  /\ UNCHANGED <<kind, llm_config>>

\* agent.log_interaction("test_operation", {"detail": "test detail"})
LogInteraction(a, u) ==
  /\ kind[a] # "absent"
  /\ Commit(log_interaction(World, u, "test_operation",
                            [detail |-> "test detail"]))
  /\ Called("log_interaction", a, u, "test_operation", <<>>, None)
  /\ UNCHANGED <<kind, llm_config>>

GetCorrelationId(u) ==
  /\ LET g == get_correlation_id(World, u)
     IN  /\ Commit(g.w)
         /\ Called("get_correlation_id", "-", u, <<>>, g.ret, None)
  /\ UNCHANGED <<kind, llm_config>>

SetCorrelationId(u, id) ==
  /\ Commit(set_correlation_id(World, u, id))
  /\ Called("set_correlation_id", "-", u, id, <<>>, None)
  /\ UNCHANGED <<kind, llm_config>>

\* inputs of add_to_history called directly: (role, content)
Entries == {<<"user", HiMessage>>, <<"assistant", HelloResponse>>}
\* responses passed to validate_response directly
Responses == {HiMessage, HelloResponse}

\* one agent driven from one execution unit
Agent1 == {"agent1"}
Unit1 == {"unit1"}

Next ==
  \/ \E a \in Agent1, u \in Unit1, mt \in MaxTokensValues :
       ConstructConversationalAgent(a, u, mt)
  \/ \E a \in Agent1, u \in Unit1, mt \in MaxTokensValues :
       ConstructBaseAgent(a, u, mt)
  \/ \E a \in Agent1, u \in Unit1, cid \in ExplicitIds \cup {None} :
       InitializeState(a, u, cid)
  \/ \E a \in Agent1, u \in Unit1, e \in Entries :
       AddToHistory(a, u, e[1], e[2])
  \/ \E a \in Agent1, u \in Unit1, message \in Messages :
       ProcessMessage(a, u, message)
  \/ \E a \in Agent1, u \in Unit1, response \in Responses :
       ValidateResponse(a, u, response)
  \/ \E a \in Agent1, u \in Unit1 : GetConversationSummary(a, u)
  \/ \E a \in Agent1, u \in Unit1 : ResetConversation(a, u)
  \/ \E a \in Agent1, u \in Unit1 : LogInteraction(a, u)
  \/ \E u \in Unit1 : GetCorrelationId(u)
  \/ \E u \in Unit1, id \in ExplicitIds : SetCorrelationId(u, id)

Spec == Init /\ [][Next]_vars

\* texts sent in the settings with two agents or two units
SharedMessages == {HiMessage}
\* entries add_to_history is called with in the setting with two agents
SharedEntries == {<<"user", HiMessage>>}
\* max_tokens in the settings with two agents or two units
SharedMaxTokens == {1000}

\* two agents driven from one execution unit
NextAgents ==
  \/ \E a \in AgentIds, u \in Unit1, mt \in SharedMaxTokens :
       ConstructConversationalAgent(a, u, mt)
  \/ \E a \in AgentIds, u \in Unit1, mt \in SharedMaxTokens :
       ConstructBaseAgent(a, u, mt)
  \/ \E a \in AgentIds, u \in Unit1, cid \in ExplicitIds \cup {None} :
       InitializeState(a, u, cid)
  \/ \E a \in AgentIds, u \in Unit1, e \in SharedEntries :
       AddToHistory(a, u, e[1], e[2])
  \/ \E a \in AgentIds, u \in Unit1, message \in SharedMessages :
       ProcessMessage(a, u, message)
  \/ \E a \in AgentIds, u \in Unit1 : ResetConversation(a, u)
  \/ \E u \in Unit1, id \in ExplicitIds : SetCorrelationId(u, id)

SpecAgents == Init /\ [][NextAgents]_vars

\* one agent called from two execution units, each of which also reads and
\* sets its correlation identifier
NextUnits ==
  \/ \E a \in Agent1, u \in Units, mt \in SharedMaxTokens :
       ConstructConversationalAgent(a, u, mt)
  \/ \E a \in Agent1, u \in Units, message \in SharedMessages :
       ProcessMessage(a, u, message)
  \/ \E a \in Agent1, u \in Units : ResetConversation(a, u)
  \/ \E a \in Agent1, u \in Units : LogInteraction(a, u)
  \/ \E u \in Units : GetCorrelationId(u)
  \/ \E u \in Units, id \in ExplicitIds : SetCorrelationId(u, id)

SpecUnits == Init /\ [][NextUnits]_vars

\* a BaseAgent subclass that does not initialize its state, driven from one
\* execution unit
NextBase ==
  \/ \E a \in Agent1, u \in Unit1, mt \in MaxTokensValues :
       ConstructBaseAgent(a, u, mt)
  \/ \E a \in Agent1, u \in Unit1, cid \in ExplicitIds \cup {None} :
       InitializeState(a, u, cid)
  \/ \E a \in Agent1, u \in Unit1, e \in Entries :
       AddToHistory(a, u, e[1], e[2])
  \/ \E u \in Unit1, id \in ExplicitIds : SetCorrelationId(u, id)

SpecBase == Init /\ [][NextBase]_vars

\* logging.DEBUG
DEBUG == 10
\* levels passed to setup_logging
LoggingLevels == {DEBUG, INFO, WARNING}

\* setup_logging(level) called by the application in unit u
SetupLogging(u, level) ==
  /\ Commit(setup_logging(World, level))
  /\ Called("setup_logging", "-", u, level, <<>>, None)
  /\ UNCHANGED <<kind, llm_config>>

\* the logger configured again and again, by the application and by the
\* construction of agents, and written to in between
NextLogging ==
  \/ \E u \in Unit1, level \in LoggingLevels : SetupLogging(u, level)
  \/ \E a \in AgentIds, u \in Unit1, mt \in SharedMaxTokens :
       ConstructConversationalAgent(a, u, mt)
  \/ \E a \in AgentIds, u \in Unit1, mt \in SharedMaxTokens :
       ConstructBaseAgent(a, u, mt)
  \/ \E a \in AgentIds, u \in Unit1 : LogInteraction(a, u)
  \/ \E a \in AgentIds, u \in Unit1, message \in SharedMessages :
       ProcessMessage(a, u, message)

SpecLogging == Init /\ [][NextLogging]_vars

\* one ConversationalAgent, constructed without an explicit identifier and
\* used through its own operations only, in one execution unit
NextTurns ==
  \/ \E a \in Agent1, u \in Unit1, mt \in MaxTokensValues :
       ConstructConversationalAgent(a, u, mt)
  \/ \E a \in Agent1, u \in Unit1, message \in Messages :
       ProcessMessage(a, u, message)
  \/ \E a \in Agent1, u \in Unit1 : ResetConversation(a, u)
  \/ \E a \in Agent1, u \in Unit1 : GetConversationSummary(a, u)

SpecTurns == Init /\ [][NextTurns]_vars

(***************************************************************************)
(* config/llm_config.py: LLMConfig(kwargs), and agents constructed with  *)
(* the configuration it returns.  A keyword argument is <<value>>, or      *)
(* Unset when the caller leaves it out.  temperature is held in tenths.    *)
(***************************************************************************)
Unset == <<>>

FieldNames ==
  {"provider", "api_key", "model", "temperature", "max_tokens",
   "azure_endpoint", "azure_deployment", "api_version",
   "fallback_provider", "fallback_model", "enable_token_tracking"}

\* default of temperature, 0.7
DefaultTemperature == 7
\* bounds of temperature, ge=0.0 and le=2.0
MinTemperature == 0
MaxTemperature == 20
\* default of max_tokens
DefaultMaxTokens == 1000

\* the field defaults; env is the value of OPENAI_API_KEY, or None
Defaults(env) ==
  [provider              |-> "openai",
   api_key               |-> IF env = None THEN "" ELSE env,
   model                 |-> "gpt-4",
   temperature           |-> DefaultTemperature,
   max_tokens            |-> DefaultMaxTokens,
   azure_endpoint        |-> None,
   azure_deployment      |-> None,
   api_version           |-> "2024-02-15-preview",
   fallback_provider     |-> None,
   fallback_model        |-> None,
   enable_token_tracking |-> TRUE]

\* the field values of LLMConfig(kwargs)
FieldValues(kwargs, env) ==
  [f \in FieldNames |->
     IF kwargs[f] = Unset THEN Defaults(env)[f] ELSE kwargs[f][1]]

\* LLMConfig that refuses to be built without an api_key
LLMConfig_key_required(kwargs, env) ==
  LET values == FieldValues(kwargs, env)
  IN  IF kwargs.api_key = Unset
        THEN [raised |-> "ConfigurationError", config |-> NoConfig]
      ELSE IF \/ values.temperature < MinTemperature
              \/ values.temperature > MaxTemperature
              \/ values.max_tokens <= 0
        THEN [raised |-> "ValidationError", config |-> NoConfig]
      ELSE [raised |-> None, config |-> values]

\* LLMConfig with the bounds of temperature excluded
LLMConfig_open_bounds(kwargs, env) ==
  LET values == FieldValues(kwargs, env)
  IN  IF \/ values.temperature <= MinTemperature
         \/ values.temperature >= MaxTemperature
         \/ values.max_tokens <= 0
        THEN [raised |-> "ValidationError", config |-> NoConfig]
        ELSE [raised |-> None, config |-> values]

\* LLMConfig(kwargs): the model instance, or the pydantic ValidationError
LLMConfig(kwargs, env) ==
  LET values == FieldValues(kwargs, env)
  IN  IF \/ values.temperature < MinTemperature
         \/ values.temperature > MaxTemperature
         \/ values.max_tokens <= 0
        THEN [raised |-> "ValidationError", config |-> NoConfig]
        ELSE [raised |-> None, config |-> values]

\* agent = ConversationalAgent(llm_config=LLMConfig(kwargs)); with no
\* keyword argument at all this is also ConversationalAgent(), which builds
\* LLMConfig() itself.  When LLMConfig raises, the constructor is not run
ConstructWithConfig(a, u, kwargs, env) ==
  /\ kind[a] = "absent"
  /\ LET c == LLMConfig(kwargs, env)
     IN  IF c.raised # None
           THEN /\ Commit(World)
                /\ Called("LLMConfig", a, u, kwargs, <<>>, c.raised)
                /\ UNCHANGED <<kind, llm_config>>
           ELSE /\ kind' = [kind EXCEPT ![a] = "conv"]
                /\ llm_config' = [llm_config EXCEPT ![a] = c.config]
                /\ Commit(ConversationalAgent_init(World, a, u))
                /\ Called("ConversationalAgent", a, u, kwargs, <<>>, None)

\* values of OPENAI_API_KEY in the environment
EnvApiKeys == {None, "env-key"}
\* temperatures passed, in tenths: -0.1, 0.0, 1.0, 2.0, 2.1
Temperatures == {-1, 0, 10, 20, 21}
\* max_tokens passed
MaxTokensInputs == {-1, 0, 1, 1000}

\* keyword arguments passed to LLMConfig
KwargsInputs ==
  {[f \in FieldNames |->
      CASE f = "temperature" -> t
        [] f = "max_tokens"  -> m
        [] f = "api_key"     -> k
        [] f = "provider"    -> p
        [] OTHER             -> Unset] :
     t \in {Unset} \cup {<<x>> : x \in Temperatures},
     m \in {Unset} \cup {<<x>> : x \in MaxTokensInputs},
     k \in {Unset, <<"test-key">>},
     p \in {Unset, <<"azure_openai">>}}

NextConfig ==
  \/ \E a \in Agent1, u \in Unit1, kwargs \in KwargsInputs,
        env \in EnvApiKeys :
       ConstructWithConfig(a, u, kwargs, env)
  \/ \E a \in Agent1, u \in Unit1, message \in SharedMessages :
       ProcessMessage(a, u, message)

SpecConfig == Init /\ [][NextConfig]_vars

(***************************************************************************)
(* The guardrail at its boundaries: validate_response and process_message  *)
(* on agents built with a small max_tokens                                 *)
(***************************************************************************)
\* max_tokens of the agents: 1 is the smallest value LLMConfig accepts, and
\* 14 * 4 is the length of the greeting
GuardrailMaxTokens == {1, 2, 14}

\* trimmed length 2
ShortPadded == <<" ","a","b"," ">>
\* trimmed length 3, length 3
ThreeChars == <<"a","b","c">>
\* trimmed length 3, length 4 = 1 * 4
ThreePadded == <<" ","a","b","c">>
\* length 5: over 1 * 4, within 2 * 4
FiveChars == <<"a","b","c","d","e">>
\* length 8 = 2 * 4
EightChars == <<"a","b","c","d","e","f","g","h">>
\* length 9: over 2 * 4
NineChars == <<"a","b","c","d","e","f","g","h","i">>
\* length 9, trimmed length 2
LongBlank == <<"a","b"," "," "," "," "," "," "," ">>
\* a denylisted word in upper case
HackUpper == <<"H","a","c","k">>
\* a denylisted word inside a longer word
Hacker == <<"h","a","c","k","e","r">>
\* length 9 with a denylisted word
LongHack == <<"h","a","c","k"," ","i","t","!","!">>
\* a word of the second pattern
ScamText == <<"a"," ","s","c","a","m">>
\* words of both patterns, the second pattern's first
ScamHack == <<"s","c","a","m"," ","h","a","c","k">>
\* length 57: over 14 * 4
GreetingPlus == HelloResponse \o <<"!">>

\* responses passed to validate_response
GuardrailResponses ==
  {EmptyMessage, BlankMessage, HiMessage, ShortPadded, ThreeChars,
   ThreePadded, FiveChars, EightChars, NineChars, LongBlank, HackMessage,
   HackUpper, Hacker, LongHack, ScamText, ScamHack, HelloResponse,
   GreetingPlus}

\* texts sent to process_message
GuardrailMessages ==
  {EmptyMessage, BlankMessage, HiMessage, HackMessage, PaddedMessage,
   ThreeChars, <<"x">>}

NextGuardrail ==
  \/ \E a \in Agent1, u \in Unit1, mt \in GuardrailMaxTokens :
       ConstructConversationalAgent(a, u, mt)
  \/ \E a \in Agent1, u \in Unit1, response \in GuardrailResponses :
       ValidateResponse(a, u, response)
  \/ \E a \in Agent1, u \in Unit1, message \in GuardrailMessages :
       ProcessMessage(a, u, message)
  \/ \E a \in Agent1, u \in Unit1 : GetConversationSummary(a, u)

SpecGuardrail == Init /\ [][NextGuardrail]_vars

(***************************************************************************)
(* process_message with a response generator that may fail.  The           *)
(* _generate_response of the repository computes its answer locally; the   *)
(* method is the place where a production agent calls the LLM, and a       *)
(* subclass may override it, so its outcome is taken here as an input:     *)
(* the candidate it returns, or the exception it raises.                   *)
(***************************************************************************)
\* an exception raised by _generate_response
GeneratorError == "RuntimeError: generation failed"

\* process_message treating a failure of the generator as a rejected
\* candidate
process_message_generating_masked(w, a, u, message, max_tokens, generated) ==
  IF is_blank(message)
    THEN [w |-> w, ret |-> <<>>, raised |-> EmptyInputError]
    ELSE
      LET w1 == receive_message(w, a, u, message)
          candidate == generated.ret
          v == IF generated.raised # None
                 THEN [is_valid |-> FALSE, error_message |-> generated.raised]
                 ELSE validate_response(candidate, max_tokens)
          w2 == warn_if_rejected(w1, u, v)
          response == final_response(v, candidate)
          w3 == deliver_response(w2, a, u, response, v.is_valid)
      IN  [w |-> w3, ret |-> response, raised |-> None]

\* ConversationalAgent.process_message(message) when the call of
\* _generate_response has the outcome generated: the call is made outside
\* any try statement, so its exception ends process_message
process_message_generating(w, a, u, message, max_tokens, generated) ==
  IF is_blank(message)
    THEN [w |-> w, ret |-> <<>>, raised |-> EmptyInputError]
    ELSE
      LET w1 == receive_message(w, a, u, message)
      IN  IF generated.raised # None
            THEN [w |-> w1, ret |-> <<>>, raised |-> generated.raised]
            ELSE
              LET candidate == generated.ret
                  v == validate_response(candidate, max_tokens)
                  w2 == warn_if_rejected(w1, u, v)
                  response == final_response(v, candidate)
                  w3 == deliver_response(w2, a, u, response, v.is_valid)
              IN  [w |-> w3, ret |-> response, raised |-> None]

\* the name under which a call of process_message is recorded
ProcessMessageCall(message, generated) ==
  IF ~is_blank(message) /\ generated.raised # None
    THEN "process_message, generator raised"
    ELSE "process_message"

ProcessMessageGenerating(a, u, message, generated) ==
  /\ kind[a] = "conv"
  /\ LET r == process_message_generating(World, a, u, message,
                                         llm_config[a].max_tokens, generated)
     IN  /\ Commit(r.w)
         /\ Called(ProcessMessageCall(message, generated), a, u, message,
                   r.ret, r.raised)
  /\ UNCHANGED <<kind, llm_config>>

\* outcomes of _generate_response
GeneratorOutcomes ==
  {[ret |-> <<>>, raised |-> GeneratorError],
   [ret |-> HelloResponse, raised |-> None],
   [ret |-> HackMessage, raised |-> None]}

\* texts sent while the generator may fail
GeneratorMessages == {BlankMessage, HiMessage, HackMessage}

NextGenerator ==
  \/ \E a \in Agent1, u \in Unit1, mt \in MaxTokensValues :
       ConstructConversationalAgent(a, u, mt)
  \/ \E a \in Agent1, u \in Unit1, message \in GeneratorMessages,
        generated \in GeneratorOutcomes :
       ProcessMessageGenerating(a, u, message, generated)
  \/ \E a \in Agent1, u \in Unit1 : ResetConversation(a, u)

SpecGenerator == Init /\ [][NextGenerator]_vars

(***************************************************************************)
(* agents/tools.py: CalculatorTool.execute.  The operands are floats with  *)
(* integral values; a result is held exactly, as a fraction in lowest      *)
(* terms.                                                                  *)
(***************************************************************************)
RECURSIVE Gcd(_, _)
Gcd(m, n) == IF n = 0 THEN m ELSE Gcd(n, m % n)

Abs(n) == IF n < 0 THEN -n ELSE n

\* the number n / d, d # 0
Fraction(n, d) ==
  LET g == Gcd(Abs(n), Abs(d))
      s == IF d < 0 THEN -1 ELSE 1
  IN  [num |-> (s * n) \div g, den |-> (s * d) \div g]

\* the keys of the operations dict
OperationNames == {"add", "subtract", "multiply", "divide"}

\* operations[operation](a, b): <<result>>, or <<>> for None
apply_operation(operation, a, b) ==
  CASE operation = "add"      -> <<Fraction(a + b, 1)>>
    [] operation = "subtract" -> <<Fraction(a - b, 1)>>
    [] operation = "multiply" -> <<Fraction(a * b, 1)>>
    [] operation = "divide"   -> IF b # 0 THEN <<Fraction(a, b)>> ELSE <<>>

\* execute testing the result for truth, so that a result of 0 counts as None
execute_falsy_result(operation, a, b) ==
  IF operation \notin OperationNames
    THEN [ret |-> <<>>,
          raised |-> "ValueError: Invalid operation: " \o operation]
    ELSE LET result == apply_operation(operation, a, b)
         IN  IF result = <<>> \/ result[1].num = 0
               THEN [ret |-> <<>>, raised |-> "ValueError: Division by zero"]
               ELSE [ret |-> [operation |-> operation,
                              operands  |-> <<a, b>>,
                              result    |-> result[1]],
                     raised |-> None]

\* CalculatorTool.execute(operation, a, b): the dict returned, or the
\* exception raised
execute(operation, a, b) ==
  IF operation \notin OperationNames
    THEN [ret |-> <<>>,
          raised |-> "ValueError: Invalid operation: " \o operation]
    ELSE LET result == apply_operation(operation, a, b)
         IN  IF result = <<>>
               THEN [ret |-> <<>>, raised |-> "ValueError: Division by zero"]
               ELSE [ret |-> [operation |-> operation,
                              operands  |-> <<a, b>>,
                              result    |-> result[1]],
                     raised |-> None]

Execute(operation, a, b) ==
  /\ LET r == execute(operation, a, b)
     IN  Called("CalculatorTool.execute", "-", "-", <<operation, a, b>>,
                r.ret, r.raised)
  /\ Commit(World)
  /\ UNCHANGED <<kind, llm_config>>

\* operation names passed to execute
OperationInputs == OperationNames \cup {"power", ""}
\* operands passed to execute
Operands == {-2, 0, 1, 4, 20}

NextTools ==
  \E operation \in OperationInputs, a \in Operands, b \in Operands :
    Execute(operation, a, b)

SpecTools == Init /\ [][NextTools]_vars

(***************************************************************************)
(* process_message called from two threads on one agent.  The code takes   *)
(* no lock, so the threads interleave between the statements of            *)
(* process_message and between the load and the store of                   *)
(* "message_count += 1".                                                   *)
(***************************************************************************)
\* max_tokens of the agent the threads share
ThreadsMaxTokens == 1000
\* texts the threads send
ThreadsMessages == {BlankMessage, HiMessage, HackMessage}

\* the world after agent1 = ConversationalAgent(...) ran in unit1
ThreadsWorld == ConversationalAgent_init(InitWorld, "agent1", "unit1")

InitThreads ==
  /\ calls = [u \in Units |-> Idle]
  /\ kind = [a \in AgentIds |-> IF a = "agent1" THEN "conv" ELSE "absent"]
  /\ llm_config = [a \in AgentIds |->
                     IF a = "agent1" THEN [max_tokens |-> ThreadsMaxTokens]
                     ELSE NoConfig]
  /\ state = ThreadsWorld.state
  /\ correlation_id_var = ThreadsWorld.cv
  /\ uuid_count = ThreadsWorld.uuid
  /\ logger = ThreadsWorld.logger
  /\ emitted = ThreadsWorld.out
  /\ last = [op |-> "ConversationalAgent", agent |-> "agent1",
             unit |-> "unit1", arg |-> ThreadsMaxTokens, ret |-> <<>>,
             raised |-> None]

\* calls that have appended neither of their two entries / only the first
NotYetAppended == {"append_user"}
HalfAppended ==
  {"load_user", "store_user", "log_request", "generate", "append_assistant"}

\* history entries the calls in progress will still append
Pending ==
  SumOver([u \in Units |->
             IF calls[u].pc \in NotYetAppended THEN 2
             ELSE IF calls[u].pc \in HalfAppended THEN 1 ELSE 0], Units)

\* a step of the call of unit u that moves it to pc
Step(u, pc, w) ==
  /\ Commit(w)
  /\ calls' = [calls EXCEPT ![u].pc = pc]
  /\ UNCHANGED <<kind, llm_config, last>>

\* lines 80-81: the input check; a blank text raises at once
StartCall(a, u, message) ==
  /\ kind[a] = "conv"
  /\ calls[u].pc = "idle"
  /\ Commit(World)
  /\ UNCHANGED <<kind, llm_config>>
  /\ IF is_blank(message)
       THEN /\ Returned("process_message", a, u, message, <<>>,
                        EmptyInputError)
            /\ UNCHANGED calls
       ELSE /\ TotalHistory(state) + Pending + 2 <= MaxHistory
            /\ calls' = [calls EXCEPT ![u] =
                           [Idle EXCEPT !.pc = "append_user", !.agent = a,
                                        !.message = message]]
            /\ UNCHANGED last

\* base_agent.py lines 99-103, for the user entry
AppendUser(u) ==
  /\ calls[u].pc = "append_user"
  /\ Step(u, "load_user",
          append_entry(World, calls[u].agent, u, "user", calls[u].message))

\* base_agent.py line 104: the load of message_count
LoadCount(u) ==
  /\ calls[u].pc \in {"load_user", "load_assistant"}
  /\ Commit(World)
  /\ calls' = [calls EXCEPT
                 ![u].loaded = state[calls[u].agent][1].message_count,
                 ![u].pc = IF calls[u].pc = "load_user"
                             THEN "store_user" ELSE "store_assistant"]
  /\ UNCHANGED <<kind, llm_config, last>>

\* base_agent.py line 104: the store of message_count
StoreCount(u) ==
  /\ calls[u].pc \in {"store_user", "store_assistant"}
  /\ Step(u, IF calls[u].pc = "store_user" THEN "log_request"
                                             ELSE "log_response",
          store_count(World, calls[u].agent, calls[u].loaded))

\* lines 86-94: the 'process_message' log entry
LogRequest(u) ==
  /\ calls[u].pc = "log_request"
  /\ Step(u, "generate",
          log_interaction(World, u, "process_message",
            [message_length  |-> Len(calls[u].message),
             conversation_id |-> logged_conversation_id(World, calls[u].agent),
             message_count   |-> logged_message_count(World, calls[u].agent)]))

\* lines 97-103: generation, validation, warning and substitution
GenerateAndValidate(u) ==
  /\ calls[u].pc = "generate"
  /\ LET candidate == generate_response(calls[u].message)
         v == validate_response(candidate,
                                llm_config[calls[u].agent].max_tokens)
     IN  /\ Commit(warn_if_rejected(World, u, v))
         /\ calls' = [calls EXCEPT
                        ![u].pc = "append_assistant",
                        ![u].is_valid = v.is_valid,
                        ![u].response = final_response(v, candidate)]
  /\ UNCHANGED <<kind, llm_config, last>>

\* base_agent.py lines 99-103, for the assistant entry
AppendAssistant(u) ==
  /\ calls[u].pc = "append_assistant"
  /\ Step(u, "load_assistant",
          append_entry(World, calls[u].agent, u, "assistant",
                       calls[u].response))

\* lines 109-116: the 'response_generated' log entry
LogResponse(u) ==
  /\ calls[u].pc = "log_response"
  /\ Step(u, "return",
          log_interaction(World, u, "response_generated",
            [response_length   |-> Len(calls[u].response),
             conversation_id   |-> logged_conversation_id(World, calls[u].agent),
             validation_passed |-> calls[u].is_valid]))

\* line 118: return response
Return(u) ==
  /\ calls[u].pc = "return"
  /\ Commit(World)
  /\ Returned("process_message", calls[u].agent, u, calls[u].message,
              calls[u].response, None)
  /\ calls' = [calls EXCEPT ![u] = Idle]
  /\ UNCHANGED <<kind, llm_config>>

NextThreads ==
  \/ \E a \in Agent1, u \in Units, message \in ThreadsMessages :
       StartCall(a, u, message)
  \/ \E u \in Units : AppendUser(u)
  \/ \E u \in Units : LoadCount(u)
  \/ \E u \in Units : StoreCount(u)
  \/ \E u \in Units : LogRequest(u)
  \/ \E u \in Units : GenerateAndValidate(u)
  \/ \E u \in Units : AppendAssistant(u)
  \/ \E u \in Units : LogResponse(u)
  \/ \E u \in Units : Return(u)

SpecThreads == InitThreads /\ [][NextThreads]_vars

\* process_message followed statement by statement in a single thread
NextSteps ==
  \/ \E a \in Agent1, u \in Unit1, message \in ThreadsMessages :
       StartCall(a, u, message)
  \/ \E u \in Unit1 : AppendUser(u)
  \/ \E u \in Unit1 : LoadCount(u)
  \/ \E u \in Unit1 : StoreCount(u)
  \/ \E u \in Unit1 : LogRequest(u)
  \/ \E u \in Unit1 : GenerateAndValidate(u)
  \/ \E u \in Unit1 : AppendAssistant(u)
  \/ \E u \in Unit1 : LogResponse(u)
  \/ \E u \in Unit1 : Return(u)

SpecSteps == InitThreads /\ [][NextSteps]_vars

(***************************************************************************)
(* Properties                                                              *)
(***************************************************************************)
\* self.state.message_count / len(self.state.history), 0 without a state
CountOf(st, a) == IF st[a] = NoState THEN 0 ELSE st[a][1].message_count
LengthOf(st, a) == IF st[a] = NoState THEN 0 ELSE Len(st[a][1].history)

\* text is empty or consists of whitespace only
WhitespaceOnly(text) == \A i \in 1..Len(text) : text[i] \in Whitespace

\* the last step was a process_message call with a non-blank text
ProcessedText == last.op = "process_message" /\ ~WhitespaceOnly(last.arg)

\* the guardrail rejects the candidate generated for the last message
CandidateRejected ==
  ~validate_response(generate_response(last.arg),
                     llm_config[last.agent].max_tokens).is_valid

\* C1: whenever a conversation state exists, its message_count equals the
\* length of its history
C1_CountIsHistoryLength ==
  \A a \in AgentIds :
     state[a] # NoState =>
       state[a][1].message_count = Len(state[a][1].history)

\* two completed exchanges are in the history
C1_Witness ==
  /\ ProcessedText
  /\ state[last.agent] # NoState
  /\ Len(state[last.agent][1].history) = 4
  /\ state[last.agent][1].message_count = 4

\* C2: a process_message call with a text that is neither empty nor
\* whitespace-only adds exactly 2 to message_count and to the history length,
\* whether or not the guardrail rejects the candidate
C2_ProcessAddsTwo ==
  [][ProcessedText' =>
        /\ CountOf(state', last'.agent) = CountOf(state, last'.agent) + 2
        /\ LengthOf(state', last'.agent) = LengthOf(state, last'.agent) + 2
     ]_vars

\* a call whose candidate was rejected, made on a history of other entries
C2_Witness ==
  /\ ProcessedText
  /\ CandidateRejected
  /\ LengthOf(state, last.agent) = 3

\* C3: process_message with an empty or whitespace-only text raises the
\* empty-input error, leaves the conversation state as it was and logs
\* nothing
C3_BlankRejectedUnchanged ==
  [][(last'.op = "process_message" /\ WhitespaceOnly(last'.arg)) =>
        /\ last'.raised = EmptyInputError
        /\ state' = state
        /\ emitted' = <<>>
     ]_vars

\* a whitespace-only text was refused in the middle of a conversation
C3_Witness ==
  /\ last.op = "process_message"
  /\ last.arg = BlankMessage
  /\ last.raised = EmptyInputError
  /\ LengthOf(state, last.agent) = 2

Replacing ==
  {"initialize_state", "reset_conversation", "ConversationalAgent",
   "BaseAgent"}

IsPrefix(s, t) == Len(s) <= Len(t) /\ SubSeq(t, 1, Len(s)) = s

\* C5: two agents never share a conversation_id, also when both were
\* constructed in the same execution unit without an explicit identifier
C5_AgentsIsolated ==
  \A a, b \in AgentIds :
     (a # b /\ state[a] # NoState /\ state[b] # NoState) =>
        state[a][1].conversation_id # state[b][1].conversation_id

\* C7: the correlation identifier of a unit is changed only by that unit's
\* own calls, and get_correlation_id returns the calling unit's own value
C7_CorrelationScopedPerUnit ==
  [][/\ \A u \in Units :
          correlation_id_var'[u] # correlation_id_var[u] => last'.unit = u
     /\ last'.op = "get_correlation_id" =>
          /\ last'.ret = correlation_id_var'[last'.unit]
          /\ correlation_id_var[last'.unit] # None =>
               last'.ret = correlation_id_var[last'.unit]
    ]_vars

\* a unit reads back its own identifier while the other unit holds another
C7_Witness ==
  /\ last.op = "get_correlation_id"
  /\ \E v \in Units :
       /\ v # last.unit
       /\ correlation_id_var[v] # None
       /\ correlation_id_var[v] # last.ret

\* the response process_message delivers for a text
ResponseTo(text, max_tokens) ==
  LET candidate == generate_response(text)
  IN  IF validate_response(candidate, max_tokens).is_valid
        THEN candidate ELSE Apology

\* C8: once all concurrent process_message calls on an agent have returned,
\* its history is that of some serial order of the calls (each user entry
\* is directly followed by the response to it) and message_count equals the
\* history length
C8_CallsSerialized ==
  (\A u \in Units : calls[u].pc = "idle") =>
     \A a \in AgentIds :
        state[a] # NoState =>
          LET history == state[a][1].history
          IN  /\ state[a][1].message_count = Len(history)
              /\ Len(history) % 2 = 0
              /\ \A k \in 1..(Len(history) \div 2) :
                   /\ history[2 * k - 1].role = "user"
                   /\ history[2 * k] =
                        [role    |-> "assistant",
                         content |-> ResponseTo(history[2 * k - 1].content,
                                                llm_config[a].max_tokens)]

\* C6: after reset_conversation the conversation_id differs from the one
\* before the reset, message_count is 0 and the history is empty
C6_ResetStartsAfresh ==
  [][last'.op = "reset_conversation" =>
        LET a == last'.agent
        IN  /\ state'[a] # NoState
            /\ state'[a][1].message_count = 0
            /\ state'[a][1].history = <<>>
            /\ state[a] # NoState =>
                 state'[a][1].conversation_id # state[a][1].conversation_id
     ]_vars

\* a second identifier was drawn by a reset of an agent that had one
C6_Witness ==
  /\ last.op = "reset_conversation"
  /\ state[last.agent] # NoState
  /\ state[last.agent][1].conversation_id = uuid4(2)
  /\ state[last.agent][1].history = <<>>

\* C9: an operation that does not replace the state leaves the previous
\* history as a prefix of the new one and does not decrease message_count
C9_HistoryAppendOnly ==
  [][\A a \in AgentIds :
        (state[a] # NoState /\ last'.op \notin Replacing) =>
           /\ state'[a] # NoState
           /\ IsPrefix(state[a][1].history, state'[a][1].history)
           /\ state'[a][1].message_count >= state[a][1].message_count
     ]_vars

\* an entry was appended behind a user entry and an assistant entry
C9_Witness ==
  /\ last.op = "add_to_history"
  /\ LengthOf(state, last.agent) = 3
  /\ state[last.agent][1].history[1].role = "user"
  /\ state[last.agent][1].history[2].role = "assistant"

\* C10: the conversation_id of an existing state changes only when the state
\* is replaced (initialize_state, reset_conversation); every other
\* operation, an external set_correlation_id included, leaves it unchanged
C10_ConversationIdImmutable ==
  [][\A a \in AgentIds :
        (state[a] # NoState /\ last'.op \notin Replacing) =>
           /\ state'[a] # NoState
           /\ state'[a][1].conversation_id = state[a][1].conversation_id
     ]_vars

\* the correlation identifier was set to another value than the
\* conversation_id of a conversation in progress
C10_Witness ==
  /\ last.op = "set_correlation_id"
  /\ \E a \in AgentIds :
       /\ state[a] # NoState
       /\ state[a][1].history # <<>>
       /\ state[a][1].conversation_id # correlation_id_var[last.unit]

\* the operations that call set_correlation_id
Setters == {"set_correlation_id", "reset_conversation"}

\* C11: in one execution unit get_correlation_id returns the value of the
\* most recent set_correlation_id, or the value the first get generated when
\* there was none: a get returns the identifier current in its unit and
\* leaves it current (generating and storing one when there is none), a set
\* makes its argument current, and an identifier that is current changes
\* only by a set made in its own unit
C11_GetReturnsLatestSet ==
  [][/\ last'.op = "get_correlation_id" =>
          /\ last'.ret # None
          /\ correlation_id_var'[last'.unit] = last'.ret
          /\ correlation_id_var[last'.unit] # None =>
                last'.ret = correlation_id_var[last'.unit]
     /\ last'.op = "set_correlation_id" =>
          correlation_id_var'[last'.unit] = last'.arg
     /\ \A u \in Units :
          (/\ correlation_id_var[u] # None
           /\ correlation_id_var'[u] # correlation_id_var[u]) =>
             (last'.op \in Setters /\ last'.unit = u)
    ]_vars

\* a get returned the identifier set after an identifier had been generated
\* lazily, while the other unit holds an identifier of its own
C11_Witness ==
  /\ last.op = "get_correlation_id"
  /\ last.ret \in ExplicitIds
  /\ uuid_count >= 1
  /\ \E u \in Units :
       correlation_id_var[u] \notin ExplicitIds \cup {None}

\* C12: constructing a ConversationalAgent leaves an active state with
\* message_count 0, empty history, empty context and the conversation_id
\* equal to the correlation identifier current in the constructing unit,
\* which is the one set before or, when none was set, one generated and
\* stored by the construction
C12_ConstructedStateIsFresh ==
  [][last'.op = "ConversationalAgent" =>
       LET a == last'.agent
           u == last'.unit
       IN  /\ state'[a] # NoState
           /\ state'[a][1].message_count = 0
           /\ state'[a][1].history = <<>>
           /\ state'[a][1].context = <<>>
           /\ correlation_id_var'[u] # None
           /\ state'[a][1].conversation_id = correlation_id_var'[u]
           /\ correlation_id_var[u] # None =>
                 correlation_id_var'[u] = correlation_id_var[u]
    ]_vars

\* an agent was constructed in a unit whose identifier had been set
C12_Witness ==
  /\ last.op = "ConversationalAgent"
  /\ state[last.agent] # NoState
  /\ state[last.agent][1].conversation_id \in ExplicitIds

\* the reasons validate_response gives
TooShortReason == "Response is empty or too short"
TooLongReason(max_tokens) ==
  "Response exceeds maximum length of " \o ToString(max_tokens * 4)
    \o " characters"
HarmfulReason(i) ==
  "Response contains potentially harmful content: "
    \o harmful_patterns[i].pattern
\* the denylist patterns the lower-cased response matches
Matched(response) ==
  {i \in 1..Len(harmful_patterns) :
     re_search_words(harmful_patterns[i].words, lower(response))}

\* C13: validate_response returns (false, too short) when the trimmed
\* length is below 3; otherwise (false, exceeds) when the length is greater
\* than max_tokens * 4; otherwise (false, harmful content) when the
\* lower-cased response matches a denylist pattern; otherwise (true, None).
\* A trimmed length of 3 and a length of max_tokens * 4 pass both tests
C13_ValidationDecision ==
  last.op = "validate_response" =>
    LET response   == last.arg
        max_tokens == llm_config[last.agent].max_tokens
        v          == last.ret
    IN  /\ max_tokens > 0
        /\ IF Len(strip(response)) < 3
             THEN v = [is_valid |-> FALSE, error_message |-> TooShortReason]
           ELSE IF Len(response) > max_tokens * 4
             THEN v = [is_valid |-> FALSE,
                       error_message |-> TooLongReason(max_tokens)]
           ELSE IF Matched(response) # {}
             THEN /\ v.is_valid = FALSE
                  /\ \E i \in Matched(response) :
                       v.error_message = HarmfulReason(i)
           ELSE v = [is_valid |-> TRUE, error_message |-> None]

\* a response of trimmed length 3 and of length max_tokens * 4 was accepted
C13_Witness ==
  /\ last.op = "validate_response"
  /\ Len(strip(last.arg)) = 3
  /\ Len(last.arg) = llm_config[last.agent].max_tokens * 4
  /\ last.ret.is_valid

\* C14: validate_response changes neither the conversation state nor the
\* correlation identifiers and emits no log entry
C14_ValidationIsPure ==
  [][last'.op = "validate_response" =>
       /\ state' = state
       /\ correlation_id_var' = correlation_id_var
       /\ uuid_count' = uuid_count
       /\ logger' = logger
       /\ emitted' = <<>>
    ]_vars

\* a response was rejected by validate_response on an agent whose
\* conversation holds entries
C14_Witness ==
  /\ last.op = "validate_response"
  /\ ~last.ret.is_valid
  /\ state[last.agent] # NoState
  /\ Len(state[last.agent][1].history) >= 2

C16_SummaryReportsState ==
  [][last'.op = "get_conversation_summary" =>
       LET a == last'.agent
       IN  /\ state' = state
           /\ IF state[a] = NoState
                THEN last'.ret = [error |-> "No active conversation"]
                ELSE /\ DOMAIN last'.ret =
                          {"conversation_id", "message_count",
                           "history_length", "context"}
                     /\ last'.ret.conversation_id =
                          state[a][1].conversation_id
                     /\ last'.ret.message_count = state[a][1].message_count
                     /\ last'.ret.history_length = Len(state[a][1].history)
                     /\ last'.ret.context = state[a][1].context
    ]_vars

\* the summary of a conversation of two turns was taken
C16_Witness ==
  /\ last.op = "get_conversation_summary"
  /\ state[last.agent] # NoState
  /\ Len(state[last.agent][1].history) = 4
  /\ last.ret.history_length = 4

\* the calls that construct a configuration, alone or for an agent
ConfigCalls == {"LLMConfig", "ConversationalAgent"}
\* every keyword argument is left out
NothingGiven(kwargs) == \A f \in FieldNames : kwargs[f] = Unset

\* C17, as stated: constructing an agent with the configuration fields
\* missing fails with a ConfigurationError and leaves no agent and no
\* conversation state
C17_MissingFieldsRejected ==
  [][(last'.op \in ConfigCalls /\ NothingGiven(last'.arg)) =>
       /\ last'.raised = "ConfigurationError"
       /\ kind' = kind
       /\ state' = state
    ]_vars

\* C17, amended: no configuration field is required.  A field left out
\* takes its default (api_key the value of OPENAI_API_KEY, or the empty
\* string), a construction with every field left out succeeds, and a
\* construction fails only with a validation error, leaving no agent and no
\* conversation state; otherwise the agent exists with an active state
C17_MissingFieldsDefaulted ==
  [][last'.op \in ConfigCalls =>
       LET kwargs == last'.arg
           a      == last'.agent
       IN  /\ last'.raised \in {None, "ValidationError"}
           /\ NothingGiven(kwargs) => last'.raised = None
           /\ last'.raised = None =>
                /\ kind[a] = "absent" /\ kind'[a] = "conv"
                /\ state'[a] # NoState
                /\ \A f \in FieldNames :
                     kwargs[f] # Unset => llm_config'[a][f] = kwargs[f][1]
                /\ kwargs.provider = Unset =>
                     llm_config'[a].provider = "openai"
                /\ kwargs.api_key = Unset =>
                     llm_config'[a].api_key \in {"", "env-key"}
                /\ kwargs.model = Unset => llm_config'[a].model = "gpt-4"
                /\ kwargs.temperature = Unset =>
                     llm_config'[a].temperature = 7
                /\ kwargs.max_tokens = Unset =>
                     llm_config'[a].max_tokens = 1000
           /\ last'.raised # None => (kind' = kind /\ state' = state)
    ]_vars

\* an agent was constructed with every field left out and no OPENAI_API_KEY
\* in the environment
C17_Witness ==
  /\ last.op = "ConversationalAgent"
  /\ NothingGiven(last.arg)
  /\ kind[last.agent] = "conv"
  /\ state[last.agent] # NoState
  /\ llm_config[last.agent].api_key = ""

\* C18: constructing a configuration raises a validation error exactly when
\* the temperature is outside [0.0, 2.0] or max_tokens is not greater than
\* 0, the bounds 0.0, 2.0 and 1 being accepted; every agent that exists has
\* max_tokens >= 1
C18_ConfigValidated ==
  /\ last.op \in ConfigCalls =>
       LET temperature == IF last.arg.temperature = Unset
                            THEN 7 ELSE last.arg.temperature[1]
           max_tokens  == IF last.arg.max_tokens = Unset
                            THEN 1000 ELSE last.arg.max_tokens[1]
           rejected    == temperature < 0 \/ temperature > 20
                            \/ max_tokens <= 0
       IN  /\ rejected => last.raised = "ValidationError"
           /\ ~rejected => last.raised = None
  /\ \A a \in AgentIds :
       kind[a] # "absent" => llm_config[a].max_tokens >= 1

\* an agent was constructed with temperature 2.0 and max_tokens 1
C18_Witness ==
  /\ last.op = "ConversationalAgent"
  /\ last.arg.temperature = <<20>>
  /\ last.arg.max_tokens = <<1>>
  /\ llm_config[last.agent].max_tokens = 1
  /\ llm_config[last.agent].temperature = 20

\* C19: CalculatorTool.execute raises an 'Invalid operation' error for an
\* operation outside add, subtract, multiply and divide whatever a and b
\* are, b = 0 included, raises a 'Division by zero' error for divide with
\* b = 0, and in every other case raises nothing and returns a record of
\* the operation, the operands and a result
C19_CalculatorErrors ==
  last.op = "CalculatorTool.execute" =>
    LET operation == last.arg[1]
        a         == last.arg[2]
        b         == last.arg[3]
    IN  IF operation \notin {"add", "subtract", "multiply", "divide"}
          THEN last.raised = "ValueError: Invalid operation: " \o operation
        ELSE IF operation = "divide" /\ b = 0
          THEN last.raised = "ValueError: Division by zero"
        ELSE /\ last.raised = None
             /\ DOMAIN last.ret = {"operation", "operands", "result"}
             /\ last.ret.operation = operation
             /\ last.ret.operands = <<a, b>>

\* an operation that does not exist was called with b = 0
C19_Witness ==
  /\ last.op = "CalculatorTool.execute"
  /\ last.arg[1] = "power"
  /\ last.arg[3] = 0
  /\ last.raised = "ValueError: Invalid operation: power"

\* C20: an error raised by the response generator during process_message
\* reaches the caller: the call raises that error and returns no string,
\* the apology is not substituted, and the user entry is the only entry
\* added to the history, so that no assistant entry is appended
C20_GeneratorErrorPropagates ==
  [][last'.op = "process_message, generator raised" =>
       LET a == last'.agent
           before == state[a][1].history
           after  == state'[a][1].history
       IN  /\ last'.raised = GeneratorError
           /\ last'.ret = <<>>
           /\ last'.ret # Apology
           /\ Len(after) = Len(before) + 1
           /\ IsPrefix(before, after)
           /\ after[Len(after)].role = "user"
           /\ after[Len(after)].content = last'.arg
    ]_vars

\* the generator failed in the second turn of a conversation
C20_Witness ==
  /\ last.op = "process_message, generator raised"
  /\ last.raised = GeneratorError
  /\ Len(state[last.agent][1].history) = 3

\* the operations named by the structured entries among the log entries es
StructuredOperations(es) ==
  LET structured == SelectSeq(es, LAMBDA e : e.structured_data.operation # None)
  IN  [i \in 1..Len(structured) |-> structured[i].structured_data.operation]

\* the statements of process_message in the order the code runs them
StatementOrder ==
  << "idle", "append_user", "load_user", "store_user", "log_request",
     "generate", "append_assistant", "load_assistant", "store_assistant",
     "log_response", "return", "idle" >>

\* C21: a process_message call that succeeds emits two structured log
\* entries, placed among its state changes as follows.  The call runs its
\* statements in one order; the only statements that emit a structured
\* entry are the one after the user entry was appended and counted, which
\* emits 'process_message' with message_count one more than the count the
\* call found, before the generation and the assistant append, and the one
\* after the assistant entry was appended and counted, which emits
\* 'response_generated' before the call returns
C21_LogEntriesOrdered ==
  [][\A u \in Unit1 :
       LET c == calls[u]
           ops == StructuredOperations(emitted')
       IN  /\ calls'[u].pc # c.pc =>
                \E i \in 1..(Len(StatementOrder) - 1) :
                  /\ StatementOrder[i] = c.pc
                  /\ StatementOrder[i + 1] = calls'[u].pc
           /\ (c.pc = "log_request" /\ calls'[u].pc = "generate") =>
                LET st == state[c.agent][1]
                    h  == st.history
                IN  /\ ops = <<"process_message">>
                    /\ state' = state
                    /\ h[Len(h)] = [role |-> "user", content |-> c.message]
                    /\ st.message_count = Len(h)
                    /\ emitted'[1].structured_data.message_count =
                         c.loaded + 1
                    /\ c.loaded = Len(h) - 1
                    /\ emitted'[1].structured_data.message_length =
                         Len(c.message)
           /\ (c.pc = "log_response" /\ calls'[u].pc = "return") =>
                LET st == state[c.agent][1]
                    h  == st.history
                IN  /\ ops = <<"response_generated">>
                    /\ state' = state
                    /\ h[Len(h)] =
                         [role |-> "assistant", content |-> c.response]
                    /\ h[Len(h) - 1] =
                         [role |-> "user", content |-> c.message]
                    /\ st.message_count = Len(h)
           /\ ~(c.pc \in {"log_request", "log_response"}
                /\ calls'[u].pc # c.pc) => ops = <<>>
    ]_vars

\* the 'response_generated' entry of a second turn has just been emitted
C21_Witness ==
  /\ calls["unit1"].pc = "return"
  /\ StructuredOperations(emitted) = <<"response_generated">>
  /\ Len(state["agent1"][1].history) = 4

\* C22: when process_message(text) returns r, the last two entries of the
\* history are the user entry holding text as it was passed, not trimmed,
\* and the assistant entry holding r
C22_TurnRecorded ==
  (last.op = "process_message" /\ last.raised = None) =>
    LET h == state[last.agent][1].history
    IN  /\ Len(h) >= 2
        /\ h[Len(h) - 1] = [role |-> "user", content |-> last.arg]
        /\ h[Len(h)] = [role |-> "assistant", content |-> last.ret]

\* a text with surrounding whitespace was processed
C22_Witness ==
  /\ last.op = "process_message"
  /\ last.raised = None
  /\ strip(last.arg) # last.arg
  /\ state[last.agent][1].history[1].content = last.arg

\* C23: reset_conversation makes the identifier it generates the current
\* correlation identifier of the calling unit and keys the fresh state to
\* it: after the call the conversation_id is the unit's current identifier,
\* a new one, and a get_correlation_id that follows at once in that unit
\* returns the conversation_id
C23_ResetSetsCorrelationId ==
  [][/\ last'.op = "reset_conversation" =>
          LET a == last'.agent
              u == last'.unit
          IN  /\ correlation_id_var'[u] # None
              /\ correlation_id_var'[u] # correlation_id_var[u]
              /\ state'[a][1].conversation_id = correlation_id_var'[u]
     /\ (/\ last.op = "reset_conversation"
         /\ last'.op = "get_correlation_id"
         /\ last'.unit = last.unit) =>
          last'.ret = state'[last.agent][1].conversation_id
    ]_vars

\* an agent was reset in a unit other than the one it was constructed in
C23_Witness ==
  /\ last.op = "reset_conversation"
  /\ state[last.agent][1].conversation_id = correlation_id_var[last.unit]
  /\ \E u \in Units \ {last.unit} :
       correlation_id_var[u] \notin {None, correlation_id_var[last.unit]}

\* C24: add_to_history on an agent whose state was never initialized first
\* creates a state keyed to the current correlation identifier of the unit
\* and then appends: afterwards the state exists, its history is the
\* appended entry alone and message_count is 1
C24_FirstAppendInitializes ==
  [][(last'.op = "add_to_history" /\ state[last'.agent] = NoState) =>
       LET a == last'.agent
           u == last'.unit
       IN  /\ state'[a] # NoState
           /\ state'[a][1].history =
                <<[role |-> last'.arg[1], content |-> last'.arg[2]]>>
           /\ state'[a][1].message_count = 1
           /\ state'[a][1].context = <<>>
           /\ correlation_id_var'[u] # None
           /\ state'[a][1].conversation_id = correlation_id_var'[u]
           /\ correlation_id_var[u] # None =>
                correlation_id_var'[u] = correlation_id_var[u]
    ]_vars

\* the first append, which logged the initialization of the state, was made
\* in a unit whose identifier had been set
C24_Witness ==
  /\ last.op = "add_to_history"
  /\ kind[last.agent] = "base"
  /\ Len(emitted) = 1
  /\ Len(state[last.agent][1].history) = 1
  /\ state[last.agent][1].message_count = 1
  /\ state[last.agent][1].conversation_id \in ExplicitIds

\* C25: an operation on one agent leaves the conversation_id, the
\* message_count, the history and the context of every other agent as they
\* were, and an operation on no agent leaves those of all agents
C25_StateOwnedByAgent ==
  [][\A b \in AgentIds :
       b # last'.agent =>
         /\ (state[b] = NoState) = (state'[b] = NoState)
         /\ state[b] # NoState =>
              /\ state'[b][1].conversation_id = state[b][1].conversation_id
              /\ state'[b][1].message_count = state[b][1].message_count
              /\ state'[b][1].history = state[b][1].history
              /\ state'[b][1].context = state[b][1].context
    ]_vars

\* one agent was reset while the other held a conversation of two entries
C25_Witness ==
  /\ last.op = "reset_conversation"
  /\ \E b \in AgentIds \ {last.agent} :
       /\ state[b] # NoState
       /\ Len(state[b][1].history) = 2
       /\ state[b][1].conversation_id # state[last.agent][1].conversation_id

\* the calls that run setup_logging: the function itself and the
\* constructors, which call it with its default level
ConfiguresLogging == {"setup_logging", "ConversationalAgent", "BaseAgent"}

\* C26: however many times setup_logging has run, by a direct call or by
\* the construction of an agent, the logger has exactly one handler, the
\* handler carries exactly one CorrelationIdFilter, and the level of the
\* logger is the level of the most recent call; no other operation touches
\* the logger
C26_SetupLoggingIdempotent ==
  [][IF last'.op \in ConfiguresLogging
       THEN /\ Len(logger'.handlers) = 1
            /\ logger'.handlers[1].filters = <<"CorrelationIdFilter">>
            /\ logger'.level =
                 IF last'.op = "setup_logging" THEN last'.arg ELSE 20
       ELSE logger' = logger
    ]_vars

\* setup_logging(WARNING) was called after two agents had been constructed
C26_Witness ==
  /\ last.op = "setup_logging"
  /\ last.arg = 30
  /\ \A a \in AgentIds : kind[a] # "absent"
  /\ Len(logger.handlers) = 1
  /\ logger.level = 30

C28_RolesAlternate ==
  \A a \in AgentIds :
    kind[a] = "conv" =>
      /\ state[a] # NoState
      /\ LET h == state[a][1].history
         IN  /\ \A i \in 1..Len(h) :
                  h[i].role = IF i % 2 = 1 THEN "user" ELSE "assistant"
             /\ Len(h) % 2 = 0
      /\ state[a][1].message_count % 2 = 0

\* an empty text was refused in the conversation that followed a reset
C28_Witness ==
  /\ last.op = "process_message"
  /\ last.raised = EmptyInputError
  /\ uuid_count >= 2
  /\ Len(state[last.agent][1].history) = 2

\* C29: where one ConversationalAgent, constructed without an explicit
\* identifier, is the only writer of the correlation identifier, every log
\* entry process_message emits is tagged with the current correlation
\* identifier, and that is the conversation_id the entry records
C29_LogTaggedWithConversation ==
  last.op = "process_message" =>
    \A i \in 1..Len(emitted) :
      LET e == emitted[i]
      IN  /\ e.correlation_id = correlation_id_var[last.unit]
          /\ e.structured_data.operation # None =>
               /\ e.structured_data.conversation_id = e.correlation_id
               /\ e.structured_data.correlation_id = e.correlation_id

\* a turn was logged in the conversation that followed a reset
C29_Witness ==
  /\ last.op = "process_message"
  /\ Len(emitted) >= 2
  /\ uuid_count >= 2
  /\ emitted[1].correlation_id = uuid4(uuid_count)
  /\ emitted[1].structured_data.conversation_id = uuid4(uuid_count)

\* C30: a ConversationalAgent has a state in every state reached through
\* its operations, so get_conversation_summary does not return the
\* no-active-conversation indicator and process_message does not log the
\* placeholder 'unknown' as conversation_id
C30_StateAlwaysPresent ==
  /\ \A a \in AgentIds : kind[a] = "conv" => state[a] # NoState
  /\ last.op = "get_conversation_summary" =>
       /\ "error" \notin DOMAIN last.ret
       /\ last.ret.conversation_id =
            state[last.agent][1].conversation_id
  /\ last.op = "process_message" =>
       \A i \in 1..Len(emitted) :
         emitted[i].structured_data.operation # None =>
           emitted[i].structured_data.conversation_id # "unknown"

\* the summary was taken right after a reset
C30_Witness ==
  /\ last.op = "get_conversation_summary"
  /\ uuid_count >= 2
  /\ "error" \notin DOMAIN last.ret
  /\ last.ret.history_length = 0

=============================================================================
